---- MODULE Spec2Model ----
(***************************************************************************)
(* graphical-gdb (gg): the console thread that drives a gdb child process  *)
(* through a pstream (GDB class, open_console, update_console_and_gui in   *)
(* src/src/gui.cpp lines 338-624), the wxWidgets GUI thread it posts       *)
(* status events to, and the stack image kept by GDBStackPanel             *)
(* (src/src/gui.cpp lines 177-336).                                        *)
(*                                                                         *)
(* Text is modelled byte by byte: a string is a sequence of one-character  *)
(* strings.  The console thread is a sequential program: pc is its         *)
(* position and stack holds the return positions of the calls in          *)
(* progress.  The gdb child and the GUI thread are separate processes      *)
(* whose steps interleave with the console thread's.                       *)
(***************************************************************************)
EXTENDS Integers, Sequences, FiniteSets, TLC

\* ------------------------------------------------------------------ bounds
\* Number of input lines readline hands to the console loop before input
\* ends (end-of-input may also come earlier).
MaxLines == 1
\* Number of write calls gdb splits one answer (text and prompt) into.
MaxWrites == 2
\* Stack panel: largest stack pointer, longest frame memory, and number of
\* SetStackFrame calls in a run.
MaxAddr == 3
MaxLen == 2
MaxFrames == 3
\* Number of arguments given on gg's command line after the program name.
MaxArgs == 3

\* --------------------------------------------------------- program constants
\* #define GDB_PROMPT "(gdb) "
GDB_PROMPT == <<"(", "g", "d", "b", ")", " ">>
\* #define GDB_QUIT "quit"
GDB_QUIT == "quit"
\* #define GDB_PROGRAM_STATUS "info program"
GDB_PROGRAM_STATUS == "info program"
\* #define GDB_STATUS_IDLE / GDB_STATUS_RUNNING
GDB_STATUS_IDLE == "GDB is idle."
GDB_STATUS_RUNNING == "GDB is currently running a program."
\* The literal searched for by is_running_program.
NOT_BEING_RUN == <<"n", "o", "t", " ", "b", "e", "i", "n", "g", " ", "r", "u", "n">>
\* char buf[BUFSIZ]: the most one readsome call can return.
BUFSIZ == 8192
\* readline's end-of-input result (a null pointer).
NULL == "<null>"

\* ------------------------------------------------------------ pure helpers
Min(a, b) == IF a < b THEN a ELSE b

\* string_ends_with: false when the ending is longer than the string, else
\* the last Len(ending) bytes are compared.
string_ends_with(str, ending) ==
  IF Len(ending) > Len(str) THEN FALSE
  ELSE SubSeq(str, Len(str) - Len(ending) + 1, Len(str)) = ending

\* string_contains: str.find(value) != npos.
string_contains(str, value) ==
  \E i \in 1..(Len(str) - Len(value) + 1) : SubSeq(str, i, i + Len(value) - 1) = value

\* output.erase(output.size() - strlen(GDB_PROMPT), output.size())
erase_prompt(output) == SubSeq(output, 1, Len(output) - Len(GDB_PROMPT))

\* ------------------------------------------------------------------- state
VARIABLES
  \* console thread control
  pc, stack, buf_input, history, nRead,
  \* GDB object
  running_program_flag, running_program, handle,
  \* GDB::execute argument, is_alive locals and result
  ex_line, out_exited, err_exited, alive_ret,
  \* read_until_prompt parameters and locals
  dest, trim_prompt, hit_prompt, out_acc, err_acc,
  \* is_running_program / get_execution_output
  program_status, irp_ret,
  \* the gdb child and its three pipes (exitCause: "none" while it runs,
  \* "self" when it ended by itself, "closed" when close() ended it)
  child, exitCause, stdin, todoOut, todoErr, nWrites, outPipe, errPipe, progRunning, reply,
  \* GUI thread
  gui, evq, statusText,
  \* history of what the console thread did
  \* (oc_trace: what open_console has done, in order: "history" a line
  \* recorded, "execute" an execute call, "drain" the console drain
  \* returned, "post" update_console_and_gui finished with its status event)
  wlog, execCalls, oc_trace,
  \* GDBStackPanel
  stack_global, stack_size, stack_top, last_frame, nFrames,
  \* main's argv, open_console's args vector and loop index, and the file
  \* and argument list the gdb child was started with
  argv, args, arg_i, child_file, child_argv

ctlVars == <<pc, stack, buf_input, history, nRead>>
gdbVars == <<running_program_flag, running_program, handle>>
aliveVars == <<ex_line, out_exited, err_exited, alive_ret>>
rupVars == <<dest, trim_prompt, hit_prompt, out_acc, err_acc>>
irpVars == <<program_status, irp_ret>>
childVars == <<child, exitCause, stdin, todoOut, todoErr, nWrites, outPipe, errPipe, progRunning, reply>>
guiVars == <<gui, evq, statusText>>
logVars == <<wlog, execCalls, oc_trace>>
panelVars == <<stack_global, stack_size, stack_top, last_frame, nFrames>>
argVars == <<argv, args, arg_i, child_file, child_argv>>
vars == <<ctlVars, gdbVars, aliveVars, rupVars, irpVars, childVars, guiVars, logVars, panelVars, argVars>>


\* ------------------------------------------------------------ the gdb child
\* What gdb prints when it starts, before its first prompt.
Banners == { <<"G">> }

\* The lines readline can return (besides end-of-input).
Lines == {"", "run", "echo"}

\* The text gdb answers a command with on stdout, before the next prompt.
\* "echo" stands for a command whose output itself contains the prompt
\* text (echo (gdb) x).
ReplyOut(cmd, running) ==
  IF cmd = GDB_PROGRAM_STATUS
    THEN (IF running THEN <<"u", "p">> ELSE NOT_BEING_RUN)
  ELSE IF cmd = "run" THEN <<"S">>
  ELSE IF cmd = "echo" THEN GDB_PROMPT \o <<"x">>
  ELSE <<>>

\* The text gdb answers a command with on stderr.
ReplyErr(cmd) == IF cmd = "run" THEN <<"w">> ELSE <<>>

\* gdb takes the next command line from its stdin once it has finished
\* answering the previous one.  quit ends the process (after an optional
\* farewell on stdout, with no prompt); any other command is answered by
\* its text followed by the prompt.
ChildRead ==
  /\ child = "alive"
  /\ stdin # <<>>
  /\ todoOut = <<>> /\ todoErr = <<>>
  /\ LET cmd == Head(stdin) IN
       /\ stdin' = Tail(stdin)
       /\ IF cmd = GDB_QUIT
            THEN /\ \E bye \in {<<>>, <<"b">>} : outPipe' = outPipe \o bye
                 /\ child' = "exited"
                 /\ exitCause' = "self"
                 /\ UNCHANGED <<todoOut, todoErr, nWrites, progRunning, reply>>
            ELSE /\ progRunning' = (progRunning \/ cmd = "run")
                 /\ reply' = ReplyOut(cmd, progRunning')
                 /\ todoOut' = reply' \o GDB_PROMPT
                 /\ todoErr' = ReplyErr(cmd)
                 /\ nWrites' = 0
                 /\ UNCHANGED <<child, exitCause, outPipe>>
  /\ UNCHANGED <<errPipe, ctlVars, gdbVars, aliveVars, rupVars, irpVars, guiVars, logVars, panelVars, argVars>>

\* gdb writes the next k bytes of its answer to its stdout pipe; its last
\* allowed write takes all that is left.  nWrites counts the writes of the
\* answer in progress and is 0 when there is none.
ChildWriteOut ==
  /\ child = "alive"
  /\ todoOut # <<>>
  /\ \E k \in 1..Len(todoOut) :
       /\ (nWrites + 1 = MaxWrites) => (k = Len(todoOut))
       /\ outPipe' = outPipe \o SubSeq(todoOut, 1, k)
       /\ todoOut' = SubSeq(todoOut, k + 1, Len(todoOut))
  /\ nWrites' = IF todoOut' = <<>> THEN 0 ELSE nWrites + 1
  /\ UNCHANGED <<child, exitCause, stdin, todoErr, errPipe, progRunning, reply>>
  /\ UNCHANGED <<ctlVars, gdbVars, aliveVars, rupVars, irpVars, guiVars, logVars, panelVars, argVars>>

\* gdb writes its pending error text to its stderr pipe.
ChildWriteErr ==
  /\ child = "alive"
  /\ todoErr # <<>>
  /\ errPipe' = errPipe \o todoErr
  /\ todoErr' = <<>>
  /\ UNCHANGED <<child, exitCause, stdin, todoOut, nWrites, outPipe, progRunning, reply>>
  /\ UNCHANGED <<ctlVars, gdbVars, aliveVars, rupVars, irpVars, guiVars, logVars, panelVars, argVars>>

\* gdb ends on its own (killed, crashed); what it had not yet written is lost.
ChildExit ==
  /\ child = "alive"
  /\ handle = "open"
  /\ child' = "exited"
  /\ exitCause' = "self"
  /\ todoOut' = <<>>
  /\ todoErr' = <<>>
  /\ nWrites' = 0
  /\ UNCHANGED <<stdin, outPipe, errPipe, progRunning, reply>>
  /\ UNCHANGED <<ctlVars, gdbVars, aliveVars, rupVars, irpVars, guiVars, logVars, panelVars, argVars>>

\* ----------------------------------------------------------- the GUI thread
\* The console thread is still running (main has not returned or crashed).
ProcessUp == pc \notin {"done", "crashed"}

\* wxEntry creates the application object: wxTheApp becomes non-null.
GuiCreateApp ==
  /\ ProcessUp
  /\ gui = "starting"
  /\ gui' = "app"
  /\ UNCHANGED <<evq, statusText>>
  /\ UNCHANGED <<ctlVars, gdbVars, aliveVars, rupVars, irpVars, childVars, logVars, panelVars, argVars>>

\* GDBApp::OnInit: the frame is built (its status bar shows the idle text)
\* and becomes the top window.
GDBApp_OnInit ==
  /\ ProcessUp
  /\ gui = "app"
  /\ gui' = "running"
  /\ statusText' = GDB_STATUS_IDLE
  /\ UNCHANGED evq
  /\ UNCHANGED <<ctlVars, gdbVars, aliveVars, rupVars, irpVars, childVars, logVars, panelVars, argVars>>

\* A faulty variant of DoStatusBarUpdate: the newest event is handled first.
DoStatusBarUpdate_Newest ==
  /\ ProcessUp
  /\ gui = "running"
  /\ evq # <<>>
  /\ statusText' = evq[Len(evq)]
  /\ evq' = SubSeq(evq, 1, Len(evq) - 1)
  /\ UNCHANGED gui
  /\ UNCHANGED <<ctlVars, gdbVars, aliveVars, rupVars, irpVars, childVars, logVars, panelVars, argVars>>

\* GDBFrame::DoStatusBarUpdate: the event loop takes the oldest queued
\* event and shows its string in the status bar.
DoStatusBarUpdate ==
  /\ ProcessUp
  /\ gui = "running"
  /\ evq # <<>>
  /\ statusText' = Head(evq)
  /\ evq' = Tail(evq)
  /\ UNCHANGED gui
  /\ UNCHANGED <<ctlVars, gdbVars, aliveVars, rupVars, irpVars, childVars, logVars, panelVars, argVars>>

\* GDBFrame::OnExit: the user quits the GUI; the frame is destroyed, wxEntry
\* returns and the application object is deleted (wxTheApp is null again).
GDBFrame_OnExit ==
  /\ ProcessUp
  /\ gui = "running"
  /\ gui' = "exited"
  /\ evq' = <<>>
  /\ statusText' = ""
  /\ UNCHANGED <<ctlVars, gdbVars, aliveVars, rupVars, irpVars, childVars, logVars, panelVars, argVars>>


\* ------------------------------------------------------- the console thread
\* The locals of a call that has returned (the is_alive reports and result,
\* the accumulators of a finished drain, a consumed return value or
\* argument) are reset to their initial values by the step that uses them.
\* A call pushes the position to come back to; a return pops it.
Call(target, ret) == pc' = target /\ stack' = <<ret>> \o stack
Return == pc' = Head(stack) /\ stack' = Tail(stack)
Goto(target) == pc' = target /\ UNCHANGED stack

\* process << line << std::endl: the line is handed to the child's stdin
\* pipe.  A write to the pipe of a child that has exited fails and delivers
\* nothing.  wlog records every write with the child's state at that moment.
WriteStdin(line, by) ==
  /\ wlog' = Append(wlog, [line |-> line, by |-> by, alive |-> (child = "alive")])
  /\ stdin' = IF child = "alive" THEN Append(stdin, line) ELSE stdin

\* ---- GDB::is_alive
\* A faulty variant of is_alive_result: alive until both channels report exit.
is_alive_result_both(o, e) == ~(o /\ e)

\* The value is_alive returns from what the two channels reported.
is_alive_result(o, e) == ~(o \/ e)

\* process.out().rdbuf()->exited(); the right operand of || is evaluated
\* only when the left one is false.
IsAliveOut ==
  /\ pc = "ia_out"
  /\ out_exited' = (child = "exited")
  /\ err_exited' = FALSE
  /\ IF out_exited'
       THEN alive_ret' = is_alive_result(out_exited', err_exited') /\ Return
       ELSE UNCHANGED alive_ret /\ Goto("ia_err")
  /\ UNCHANGED <<buf_input, history, nRead, ex_line>>
  /\ UNCHANGED <<gdbVars, rupVars, irpVars, childVars, guiVars, logVars, panelVars, argVars>>

\* process.err().rdbuf()->exited(), then return !exited.
IsAliveErr ==
  /\ pc = "ia_err"
  /\ err_exited' = (child = "exited")
  /\ alive_ret' = is_alive_result(out_exited, err_exited')
  /\ Return
  /\ UNCHANGED <<buf_input, history, nRead, ex_line, out_exited>>
  /\ UNCHANGED <<gdbVars, rupVars, irpVars, childVars, guiVars, logVars, panelVars, argVars>>

\* ---- GDB::execute
ExecuteStart ==
  /\ pc = "ex_start"
  /\ Call("ia_out", "ex_chk")
  /\ UNCHANGED <<buf_input, history, nRead>>
  /\ UNCHANGED <<gdbVars, aliveVars, rupVars, irpVars, childVars, guiVars, logVars, panelVars, argVars>>

\* A faulty variant of execute_writes: the is_alive test is missing.
execute_writes_unchecked(alive, line) == line # NULL

\* The condition under which execute passes the line on.
execute_writes(alive, line) == alive /\ line # NULL

\* if (is_alive() && line) { process << line << std::endl; flag = true; }
ExecuteBody ==
  /\ pc = "ex_chk"
  /\ IF execute_writes(alive_ret, ex_line)
       THEN /\ WriteStdin(ex_line, "execute")
            /\ running_program_flag' = TRUE
       ELSE UNCHANGED <<wlog, stdin, running_program_flag>>
  /\ Return
  /\ ex_line' = NULL /\ out_exited' = FALSE /\ err_exited' = FALSE /\ alive_ret' = FALSE
  /\ UNCHANGED <<buf_input, history, nRead, running_program, handle>>
  /\ UNCHANGED <<child, exitCause, todoOut, todoErr, nWrites, outPipe, errPipe, progRunning, reply>>
  /\ UNCHANGED <<execCalls, oc_trace>>
  /\ UNCHANGED <<rupVars, irpVars, guiVars, panelVars, argVars>>

\* ---- GDB::read_until_prompt
\* bool hit_prompt = false; the accumulators hold what this call appends
\* to its two streams.
RupStart ==
  /\ pc = "rup_start"
  /\ hit_prompt' = FALSE
  /\ out_acc' = <<>>
  /\ err_acc' = <<>>
  /\ Goto("rup_while")
  /\ UNCHANGED <<buf_input, history, nRead, dest, trim_prompt>>
  /\ UNCHANGED <<gdbVars, aliveVars, irpVars, childVars, guiVars, logVars, panelVars, argVars>>

\* while (is_alive() && !hit_prompt): is_alive is called first.
RupWhile ==
  /\ pc = "rup_while"
  /\ Call("ia_out", "rup_chk")
  /\ UNCHANGED <<buf_input, history, nRead>>
  /\ UNCHANGED <<gdbVars, aliveVars, rupVars, irpVars, childVars, guiVars, logVars, panelVars, argVars>>

\* A faulty variant of rup_continue: the loop goes on after the process exited.
rup_continue_ignores_alive(alive, hit) == ~hit

\* The loop condition.
rup_continue(alive, hit) == alive /\ ~hit

RupCheck ==
  /\ pc = "rup_chk"
  /\ IF rup_continue(alive_ret, hit_prompt) THEN Goto("rup_err") ELSE Return
  /\ out_exited' = FALSE /\ err_exited' = FALSE /\ alive_ret' = FALSE
  /\ UNCHANGED <<buf_input, history, nRead, ex_line>>
  /\ UNCHANGED <<gdbVars, rupVars, irpVars, childVars, guiVars, logVars, panelVars, argVars>>

\* readsome(buf, sizeof(buf)): what is available now, at most BUFSIZ bytes.
readsome(pipe) == SubSeq(pipe, 1, Min(Len(pipe), BUFSIZ))

\* while (bufsz = process.err().readsome(...)) error_buffer << error
RupReadErr ==
  /\ pc = "rup_err"
  /\ LET error == readsome(errPipe) IN
       IF Len(error) # 0
         THEN /\ err_acc' = err_acc \o error
              /\ errPipe' = SubSeq(errPipe, Len(error) + 1, Len(errPipe))
              /\ Goto("rup_err")
         ELSE /\ UNCHANGED <<err_acc, errPipe>>
              /\ Goto("rup_out")
  /\ UNCHANGED <<buf_input, history, nRead, dest, trim_prompt, hit_prompt, out_acc>>
  /\ UNCHANGED <<child, exitCause, stdin, todoOut, todoErr, nWrites, outPipe, progRunning, reply>>
  /\ UNCHANGED <<gdbVars, aliveVars, irpVars, guiVars, logVars, panelVars, argVars>>

\* A faulty variant of chunk_hits_prompt: the end of a prompt is enough.
chunk_hits_prompt_partial(output) ==
  \E k \in 1..Len(GDB_PROMPT) :
    string_ends_with(output, SubSeq(GDB_PROMPT, k, Len(GDB_PROMPT)))

\* The test made on each chunk read from stdout.
chunk_hits_prompt(output) == string_ends_with(output, GDB_PROMPT)

\* What is appended to the output stream for a chunk.
chunk_appended(output, trim) ==
  IF chunk_hits_prompt(output) /\ trim THEN erase_prompt(output) ELSE output

\* while (bufsz = process.out().readsome(...)) { ... output_buffer << output }
RupReadOut ==
  /\ pc = "rup_out"
  /\ LET output == readsome(outPipe) IN
       IF Len(output) # 0
         THEN /\ hit_prompt' = (hit_prompt \/ chunk_hits_prompt(output))
              /\ out_acc' = out_acc \o chunk_appended(output, trim_prompt)
              /\ outPipe' = SubSeq(outPipe, Len(output) + 1, Len(outPipe))
              /\ Goto("rup_out")
         ELSE /\ UNCHANGED <<hit_prompt, out_acc, outPipe>>
              /\ Goto("rup_while")
  /\ UNCHANGED <<buf_input, history, nRead, dest, trim_prompt, err_acc>>
  /\ UNCHANGED <<child, exitCause, stdin, todoOut, todoErr, nWrites, errPipe, progRunning, reply>>
  /\ UNCHANGED <<gdbVars, aliveVars, irpVars, guiVars, logVars, panelVars, argVars>>

\* ---- GDB::is_running_program and GDB::get_execution_output
\* if (running_program_flag) get_execution_output(...) else return the
\* cached value.
IrpStart ==
  /\ pc = "irp_start"
  /\ IF running_program_flag
       THEN Call("geo_write", "irp_set") /\ UNCHANGED irp_ret
       ELSE irp_ret' = running_program /\ Return
  /\ UNCHANGED <<buf_input, history, nRead, program_status>>
  /\ UNCHANGED <<gdbVars, aliveVars, rupVars, childVars, guiVars, logVars, panelVars, argVars>>

\* get_execution_output: process << line << std::endl (no is_alive test),
\* then read_until_prompt(output_buffer, error_buffer, true).
GeoWrite ==
  /\ pc = "geo_write"
  /\ WriteStdin(GDB_PROGRAM_STATUS, "query")
  /\ dest' = "private"
  /\ trim_prompt' = TRUE
  /\ Call("rup_start", "geo_ret")
  /\ UNCHANGED <<buf_input, history, nRead, hit_prompt, out_acc, err_acc>>
  /\ UNCHANGED <<child, exitCause, todoOut, todoErr, nWrites, outPipe, errPipe, progRunning, reply>>
  /\ UNCHANGED <<execCalls, oc_trace>>
  /\ UNCHANGED <<gdbVars, aliveVars, irpVars, guiVars, panelVars, argVars>>

\* return output_buffer.str()
GeoReturn ==
  /\ pc = "geo_ret"
  /\ program_status' = out_acc
  /\ Return
  /\ hit_prompt' = FALSE /\ out_acc' = <<>> /\ err_acc' = <<>>
  /\ UNCHANGED <<buf_input, history, nRead, irp_ret, dest, trim_prompt>>
  /\ UNCHANGED <<gdbVars, aliveVars, childVars, guiVars, logVars, panelVars, argVars>>

\* The value cached from the text of the status reply.
status_is_running(text) == ~string_contains(text, NOT_BEING_RUN)

\* A faulty variant of IrpSet: the dirty flag is not cleared.
IrpSet_KeepsFlag ==
  /\ pc = "irp_set"
  /\ running_program' = status_is_running(program_status)
  /\ irp_ret' = running_program'
  /\ Return
  /\ program_status' = <<>>
  /\ UNCHANGED <<buf_input, history, nRead, handle, running_program_flag>>
  /\ UNCHANGED <<aliveVars, rupVars, childVars, guiVars, logVars, panelVars, argVars>>

\* running_program = !string_contains(...); running_program_flag = false;
\* return running_program.
IrpSet ==
  /\ pc = "irp_set"
  /\ running_program' = status_is_running(program_status)
  /\ running_program_flag' = FALSE
  /\ irp_ret' = running_program'
  /\ Return
  /\ program_status' = <<>>
  /\ UNCHANGED <<buf_input, history, nRead, handle>>
  /\ UNCHANGED <<aliveVars, rupVars, childVars, guiVars, logVars, panelVars, argVars>>


\* ---- update_console_and_gui
\* gdb.read_until_prompt(std::cout, std::cerr, true)
UcgRead ==
  /\ pc = "ucg_read"
  /\ dest' = "console"
  /\ trim_prompt' = TRUE
  /\ Call("rup_start", "ucg_status")
  /\ UNCHANGED <<buf_input, history, nRead, hit_prompt, out_acc, err_acc>>
  /\ UNCHANGED <<gdbVars, aliveVars, irpVars, childVars, guiVars, logVars, panelVars, argVars>>

\* gdb.is_running_program(), evaluated for SetString.
UcgStatus ==
  /\ pc = "ucg_status"
  /\ Call("irp_start", "ucg_post")
  /\ hit_prompt' = FALSE /\ out_acc' = <<>> /\ err_acc' = <<>>
  /\ oc_trace' = Append(oc_trace, "drain")
  /\ UNCHANGED <<buf_input, history, nRead, dest, trim_prompt, wlog, execCalls>>
  /\ UNCHANGED <<gdbVars, aliveVars, irpVars, childVars, guiVars, panelVars, argVars>>

\* The string the event carries.
status_text(running) == IF running THEN GDB_STATUS_RUNNING ELSE GDB_STATUS_IDLE

\* A faulty variant of queues_event: the event is queued without looking at the window.
queues_event_always(g) == TRUE

\* Whether the event is queued: only when GetTopWindow() is non-null.
queues_event(g) == g = "running"

\* The states the GUI thread can be in: wxEntry not yet entered, the
\* application object created, the top window set, the GUI closed.
GuiStates == {"starting", "app", "running", "exited"}

\* app = wxTheApp; window = app->GetTopWindow(); if (window) QueueEvent.
\* The ways the call can end, given the state g of the GUI thread that it
\* reads.  While wxTheApp is null (wxEntry has not created the application
\* yet, or has already destroyed it) the call goes through a null pointer:
\* the process either crashes or goes on as if there were no window.
ucg_post_outcomes(g) ==
  (IF g \in {"starting", "exited"} THEN {"crash"} ELSE {})
    \cup {IF queues_event(g) THEN "queue" ELSE "drop"}

UcgPost ==
  /\ pc = "ucg_post"
  /\ \E o \in ucg_post_outcomes(gui) :
       \/ /\ o = "crash"
          /\ pc' = "crashed"
          /\ stack' = <<>>
          /\ UNCHANGED <<evq, oc_trace>>
       \/ /\ o = "queue"
          /\ evq' = Append(evq, status_text(irp_ret))
          /\ oc_trace' = Append(oc_trace, "post")
          /\ Return
       \/ /\ o = "drop"
          /\ UNCHANGED evq
          /\ oc_trace' = Append(oc_trace, "post")
          /\ Return
  /\ irp_ret' = FALSE
  /\ UNCHANGED <<buf_input, history, nRead, gui, statusText, wlog, execCalls, program_status>>
  /\ UNCHANGED <<gdbVars, aliveVars, rupVars, childVars, panelVars, argVars>>

\* ---- open_console
\* update_console_and_gui(gdb): display the gdb introduction.
OcBanner ==
  /\ pc = "oc_banner"
  /\ Call("ucg_read", "oc_while")
  /\ UNCHANGED <<buf_input, history, nRead>>
  /\ UNCHANGED <<gdbVars, aliveVars, rupVars, irpVars, childVars, guiVars, logVars, panelVars, argVars>>

\* while (gdb.is_alive())
OcWhile ==
  /\ pc = "oc_while"
  /\ Call("ia_out", "oc_while_chk")
  /\ UNCHANGED <<buf_input, history, nRead>>
  /\ UNCHANGED <<gdbVars, aliveVars, rupVars, irpVars, childVars, guiVars, logVars, panelVars, argVars>>

OcWhileCheck ==
  /\ pc = "oc_while_chk"
  /\ IF alive_ret THEN Goto("oc_readline") ELSE Goto("oc_exit")
  /\ out_exited' = FALSE /\ err_exited' = FALSE /\ alive_ret' = FALSE
  /\ UNCHANGED <<buf_input, history, nRead, ex_line>>
  /\ UNCHANGED <<gdbVars, rupVars, irpVars, childVars, guiVars, logVars, panelVars, argVars>>

\* The lines readline may still return: end-of-input always, a line while
\* fewer than MaxLines have been read.
Inputs == (IF nRead < MaxLines THEN Lines ELSE {}) \cup {NULL}

\* A faulty variant of oc_dispatch: the null test for end-of-input is missing.
oc_dispatch_no_eof(line) == IF line # "" THEN "oc_cmd" ELSE "oc_while"

\* A faulty variant of oc_dispatch: an empty line is executed like a command.
oc_dispatch_runs_empty(line) == IF line = NULL THEN "oc_eof" ELSE "oc_cmd"

\* Where the loop goes with the line it read.
oc_dispatch(line) ==
  IF line = NULL THEN "oc_eof"
  ELSE IF line # "" THEN "oc_cmd"
  ELSE "oc_while"

\* buf_input = readline(GDB_PROMPT); a null pointer is end-of-input; a
\* non-empty line is added to the history; an empty line is dropped.
OcReadline ==
  /\ pc = "oc_readline"
  /\ \E line \in Inputs :
       /\ buf_input' = line
       /\ nRead' = nRead + 1
       /\ history' = IF line # NULL /\ line # "" THEN Append(history, line) ELSE history
       /\ oc_trace' = IF line # NULL /\ line # "" THEN Append(oc_trace, "history") ELSE oc_trace
       /\ Goto(oc_dispatch(line))
  /\ UNCHANGED <<wlog, execCalls>>
  /\ UNCHANGED <<gdbVars, aliveVars, rupVars, irpVars, childVars, guiVars, panelVars, argVars>>

\* The command sent on end-of-input.
eof_command == GDB_QUIT

\* std::cout << GDB_QUIT; gdb.execute(GDB_QUIT)
OcEof ==
  /\ pc = "oc_eof"
  /\ ex_line' = eof_command
  /\ execCalls' = Append(execCalls, eof_command)
  /\ Call("ex_start", "oc_eof_ucg")
  /\ UNCHANGED <<buf_input, history, nRead, out_exited, err_exited, alive_ret>>
  /\ oc_trace' = Append(oc_trace, "execute")
  /\ UNCHANGED wlog
  /\ UNCHANGED <<gdbVars, rupVars, irpVars, childVars, guiVars, panelVars, argVars>>

\* update_console_and_gui(gdb); break
OcEofUcg ==
  /\ pc = "oc_eof_ucg"
  /\ Call("ucg_read", "oc_exit")
  /\ UNCHANGED <<buf_input, history, nRead>>
  /\ UNCHANGED <<gdbVars, aliveVars, rupVars, irpVars, childVars, guiVars, logVars, panelVars, argVars>>

\* gdb.execute(buf_input)
OcCmd ==
  /\ pc = "oc_cmd"
  /\ ex_line' = buf_input
  /\ execCalls' = Append(execCalls, buf_input)
  /\ Call("ex_start", "oc_cmd_ucg")
  /\ UNCHANGED <<buf_input, history, nRead, out_exited, err_exited, alive_ret>>
  /\ oc_trace' = Append(oc_trace, "execute")
  /\ UNCHANGED wlog
  /\ UNCHANGED <<gdbVars, rupVars, irpVars, childVars, guiVars, panelVars, argVars>>

\* update_console_and_gui(gdb); delete buf_input (no line is held any
\* more: buf_input is "" again); next iteration
OcCmdUcg ==
  /\ pc = "oc_cmd_ucg"
  /\ Call("ucg_read", "oc_while")
  /\ buf_input' = ""
  /\ UNCHANGED <<history, nRead>>
  /\ UNCHANGED <<gdbVars, aliveVars, rupVars, irpVars, childVars, guiVars, logVars, panelVars, argVars>>

\* ---- GDB::~GDB
\* The session as process.close() sees it.
Session ==
  [handle |-> handle, child |-> child, exitCause |-> exitCause, stdin |-> stdin,
   todoOut |-> todoOut, todoErr |-> todoErr, outPipe |-> outPipe, errPipe |-> errPipe]

\* A faulty variant of process_close: a closed session is closed again.
process_close_unguarded(s) ==
  [handle |-> "closed", child |-> "exited", exitCause |-> "closed",
   stdin |-> <<>>, todoOut |-> <<>>, todoErr |-> <<>>,
   outPipe |-> <<>>, errPipe |-> <<>>]

\* process.close(): an open session has its input channel closed (gdb ends
\* at end-of-input if it has not ended already), the process is waited for
\* and the handle released; a closed session is left as it is.
process_close(s) ==
  IF s.handle = "closed" THEN s
  ELSE [handle |-> "closed", child |-> "exited",
        exitCause |-> IF s.child = "alive" THEN "closed" ELSE s.exitCause,
        stdin |-> <<>>, todoOut |-> <<>>, todoErr |-> <<>>,
        outPipe |-> <<>>, errPipe |-> <<>>]

\* open_console returns: gdb goes out of scope and ~GDB closes the process;
\* main returns 0.
GDB_dtor ==
  /\ pc = "oc_exit"
  /\ LET s == process_close(Session) IN
       /\ handle' = s.handle
       /\ child' = s.child
       /\ exitCause' = s.exitCause
       /\ stdin' = s.stdin
       /\ todoOut' = s.todoOut
       /\ todoErr' = s.todoErr
       /\ outPipe' = s.outPipe
       /\ errPipe' = s.errPipe
  /\ Goto("done")
  /\ UNCHANGED <<buf_input, history, nRead, running_program_flag, running_program>>
  /\ UNCHANGED <<nWrites, progRunning, reply>>
  /\ UNCHANGED <<aliveVars, rupVars, irpVars, guiVars, logVars, panelVars, argVars>>


\* ------------------------------------------------------------ GDBStackPanel
\* A null buffer pointer (stack_global, or a frame's memory).  A buffer is
\* a function on 0..n-1 and a stored buffer always has n >= 1.
NullBuf == <<>>

\* StackFrame * values: a null pointer, a frame without memory, and a frame
\* whose memory holds memory_length values.  The k-th call's frame holds
\* the values 100*k, 100*k+1, ...
NullFrame ==
  [present |-> FALSE, has_memory |-> FALSE, stack_pointer |-> 0,
   memory_length |-> 0, memory |-> NullBuf]
NoMemoryFrame ==
  [present |-> TRUE, has_memory |-> FALSE, stack_pointer |-> 0,
   memory_length |-> 0, memory |-> NullBuf]
MemoryFrame(sp, n, k) ==
  [present |-> TRUE, has_memory |-> TRUE, stack_pointer |-> sp,
   memory_length |-> n, memory |-> [i \in 0..(n - 1) |-> 100 * k + i]]
FrameInputs(k) ==
  {NullFrame, NoMemoryFrame}
    \cup {MemoryFrame(sp, n, k) : sp \in 0..MaxAddr, n \in 1..MaxLen}

\* A faulty variant of merged_value: the old stack takes precedence over the frame.
merged_value_old_first(address, f, old_global, old_top, old_bottom) ==
  IF address >= old_top /\ address < old_bottom
    THEN old_global[address - old_top]
  ELSE IF address >= f.stack_pointer /\ address < f.stack_pointer + f.memory_length
    THEN f.memory[address - f.stack_pointer]
  ELSE 0

\* The value stored for one address of the combined stack.
merged_value(address, f, old_global, old_top, old_bottom) ==
  IF address >= f.stack_pointer /\ address < f.stack_pointer + f.memory_length
    THEN f.memory[address - f.stack_pointer]
  ELSE IF address >= old_top /\ address < old_bottom
    THEN old_global[address - old_top]
  ELSE 0

\* The else branch of SetStackFrame with a stack already stored: the
\* border addresses of the combined stack and its values.
merged_stack(f, old_global, old_size, old_top) ==
  LET stack_frame_top == f.stack_pointer
      stack_frame_bottom == f.stack_pointer + f.memory_length
      stack_bottom == old_top + old_size
      new_stack_top == IF stack_frame_top < old_top THEN stack_frame_top ELSE old_top
      new_stack_bottom ==
        IF stack_frame_bottom > stack_bottom THEN stack_frame_bottom ELSE stack_bottom
      new_stack_size == new_stack_bottom - new_stack_top
  IN [global |-> [index \in 0..(new_stack_size - 1) |->
                    merged_value(new_stack_top + index, f, old_global, old_top, stack_bottom)],
      size |-> new_stack_size,
      top |-> new_stack_top]

\* The else branch with no stack stored: the frame is the entire stack.
stored_frame(f) ==
  [global |-> [index \in 0..(f.memory_length - 1) |-> f.memory[index]],
   size |-> f.memory_length,
   top |-> f.stack_pointer]

\* A faulty variant of set_stack_frame: a frame without memory leaves the
\* stored image as it is.
set_stack_frame_keeps(f, old_global, old_size, old_top) ==
  IF ~f.present \/ ~f.has_memory
    THEN [global |-> old_global, size |-> old_size, top |-> old_top]
  ELSE IF old_global # NullBuf
    THEN merged_stack(f, old_global, old_size, old_top)
  ELSE stored_frame(f)

\* The stack image after SetStackFrame(f).  (The grid rows the method
\* redraws are presentation and are not part of the state.)
set_stack_frame(f, old_global, old_size, old_top) ==
  IF ~f.present \/ ~f.has_memory
    THEN IF old_global # NullBuf
           THEN [global |-> NullBuf, size |-> 0, top |-> 0]
           ELSE [global |-> old_global, size |-> old_size, top |-> old_top]
  ELSE IF old_global # NullBuf
    THEN merged_stack(f, old_global, old_size, old_top)
  ELSE stored_frame(f)

SetStackFrame ==
  /\ nFrames < MaxFrames
  /\ \E f \in FrameInputs(nFrames + 1) :
       LET r == set_stack_frame(f, stack_global, stack_size, stack_top) IN
         /\ stack_global' = r.global
         /\ stack_size' = r.size
         /\ stack_top' = r.top
         /\ last_frame' = f
  /\ nFrames' = nFrames + 1
  /\ UNCHANGED <<ctlVars, gdbVars, aliveVars, rupVars, irpVars, childVars, guiVars, logVars, argVars>>

\* ------------------------------------------- start of open_console, GDB::GDB
\* The words that can follow the program name on gg's command line.
ArgTokens == {"-q", "a.out", "core"}

\* The command lines main can be started with: the program name followed
\* by up to MaxArgs words.
ArgvInputs ==
  {<<"gg">> \o t : t \in UNION {[1..n -> ArgTokens] : n \in 0..MaxArgs}}

\* A faulty variant of arg_copied: the arguments are taken from the end.
arg_copied_reversed(av, i) == av[Len(av) - i]

\* argv[i] of the loop in open_console (i counts from 0).
arg_copied(av, i) == av[i + 1]

\* for (int i = 0; i < argc; i++) args.push_back(std::string(argv[i]))
OcArgs ==
  /\ pc = "oc_args"
  /\ arg_i < Len(argv)
  /\ args' = Append(args, arg_copied(argv, arg_i))
  /\ arg_i' = arg_i + 1
  /\ UNCHANGED <<argv, child_file, child_argv>>
  /\ UNCHANGED <<ctlVars, gdbVars, aliveVars, rupVars, irpVars, childVars, guiVars, logVars, panelVars>>

\* process("gdb", args, GDB_PMODE): the file is looked up and run with args
\* as the new process's whole argument list, args[0] being what it sees as
\* its own name.
process_open(file, a) == [file |-> file, argv |-> a]

\* ---------------------------------------------------------- specifications
\* A faulty variant of ctor_flags: the dirty flag starts set.
ctor_flags_dirty == [running_program_flag |-> TRUE, running_program |-> FALSE]

\* The flags as the GDB constructor initialises them.
ctor_flags == [running_program_flag |-> FALSE, running_program |-> FALSE]

\* GDB gdb(args): the gdb child is started with args and the two flags are
\* cleared; open_console goes on to display the introduction.
GDB_ctor ==
  /\ pc = "oc_args"
  /\ arg_i >= Len(argv)
  /\ child_file' = process_open("gdb", args).file
  /\ child_argv' = process_open("gdb", args).argv
  /\ running_program_flag' = ctor_flags.running_program_flag
  /\ running_program' = ctor_flags.running_program
  /\ handle' = "open"
  /\ child' = "alive"
  /\ \E b \in Banners : reply' = b /\ todoOut' = b \o GDB_PROMPT
  /\ Goto("oc_banner")
  /\ UNCHANGED <<buf_input, history, nRead, argv, args, arg_i>>
  /\ UNCHANGED <<exitCause, stdin, todoErr, nWrites, outPipe, errPipe, progRunning>>
  /\ UNCHANGED <<aliveVars, rupVars, irpVars, guiVars, logVars, panelVars>>

\* The state when open_console has constructed the GDB object (the child is
\* spawned and about to print its banner and first prompt), the GUI thread
\* has been started and the stack panel has been constructed.
Init ==
  /\ pc = "oc_banner" /\ stack = <<>> /\ buf_input = "" /\ history = <<>> /\ nRead = 0
  /\ running_program_flag = ctor_flags.running_program_flag
  /\ running_program = ctor_flags.running_program
  /\ handle = "open"
  /\ ex_line = NULL /\ out_exited = FALSE /\ err_exited = FALSE /\ alive_ret = FALSE
  /\ dest = "console" /\ trim_prompt = TRUE /\ hit_prompt = FALSE
  /\ out_acc = <<>> /\ err_acc = <<>>
  /\ program_status = <<>> /\ irp_ret = FALSE
  /\ child = "alive" /\ exitCause = "none" /\ stdin = <<>>
  /\ \E b \in Banners : reply = b /\ todoOut = b \o GDB_PROMPT
  /\ todoErr = <<>> /\ nWrites = 0 /\ outPipe = <<>> /\ errPipe = <<>> /\ progRunning = FALSE
  /\ gui = "starting" /\ evq = <<>> /\ statusText = ""
  /\ wlog = <<>> /\ execCalls = <<>> /\ oc_trace = <<>>
  /\ stack_global = NullBuf /\ stack_size = 0 /\ stack_top = 0
  /\ last_frame = NullFrame /\ nFrames = 0
  /\ argv = <<"gg">> /\ args = argv /\ arg_i = Len(argv)
  /\ child_file = process_open("gdb", args).file
  /\ child_argv = process_open("gdb", args).argv

\* The state when main calls open_console: no GDB object exists yet and
\* the args vector is empty.
ArgsInit ==
  /\ pc = "oc_args" /\ stack = <<>> /\ buf_input = "" /\ history = <<>> /\ nRead = 0
  /\ running_program_flag = FALSE /\ running_program = FALSE
  /\ handle = "none"
  /\ ex_line = NULL /\ out_exited = FALSE /\ err_exited = FALSE /\ alive_ret = FALSE
  /\ dest = "console" /\ trim_prompt = TRUE /\ hit_prompt = FALSE
  /\ out_acc = <<>> /\ err_acc = <<>>
  /\ program_status = <<>> /\ irp_ret = FALSE
  /\ child = "none" /\ exitCause = "none" /\ stdin = <<>>
  /\ reply = <<>> /\ todoOut = <<>>
  /\ todoErr = <<>> /\ nWrites = 0 /\ outPipe = <<>> /\ errPipe = <<>> /\ progRunning = FALSE
  /\ gui = "starting" /\ evq = <<>> /\ statusText = ""
  /\ wlog = <<>> /\ execCalls = <<>> /\ oc_trace = <<>>
  /\ stack_global = NullBuf /\ stack_size = 0 /\ stack_top = 0
  /\ last_frame = NullFrame /\ nFrames = 0
  /\ argv \in ArgvInputs /\ args = <<>> /\ arg_i = 0
  /\ child_file = "" /\ child_argv = <<>>

Child == ChildRead \/ ChildWriteOut \/ ChildWriteErr \/ ChildExit

Gui == GuiCreateApp \/ GDBApp_OnInit \/ DoStatusBarUpdate \/ GDBFrame_OnExit

Console ==
  \/ OcBanner \/ OcWhile \/ OcWhileCheck \/ OcReadline \/ OcEof \/ OcEofUcg
  \/ OcCmd \/ OcCmdUcg \/ GDB_dtor
  \/ UcgRead \/ UcgStatus \/ UcgPost
  \/ ExecuteStart \/ ExecuteBody
  \/ RupStart \/ RupWhile \/ RupCheck \/ RupReadErr \/ RupReadOut
  \/ IsAliveOut \/ IsAliveErr
  \/ IrpStart \/ GeoWrite \/ GeoReturn \/ IrpSet

Next == Console \/ Child \/ Gui

\* The console thread, the gdb child and the GUI thread.
Spec == Init /\ [][Next]_vars

\* The console thread and the gdb child while the GUI thread takes no step
\* (it is still starting).  The GUI thread's steps change only gui, evq and
\* statusText, so every value the other variables take under Spec is taken
\* under SessionSpec too.
SessionNext == Console \/ Child

SessionSpec == Init /\ [][SessionNext]_vars

\* The start of open_console for every command line: the arguments are
\* copied and the GDB object is constructed.
ArgsNext == OcArgs \/ GDB_ctor

ArgsSpec == ArgsInit /\ [][ArgsNext]_vars

\* The stack panel under a sequence of SetStackFrame calls.
StackNext == SetStackFrame

StackSpec == Init /\ [][StackNext]_vars


\* ------------------------------------------------------------------ claims
\* Positions at which is_alive has just returned to its caller.
IsAliveReturned == pc \in {"oc_while_chk", "ex_chk", "rup_chk"}

\* Positions at which read_until_prompt has just returned to its caller.
DrainReturned == pc \in {"ucg_status", "geo_ret"}

\* The writes to the child's stdin made by execute, and by the status query.
ExecWrites == {i \in DOMAIN wlog : wlog[i].by = "execute"}
QueryWrites == {i \in DOMAIN wlog : wlog[i].by = "query"}

\* A command has been sent, the child has taken every command sent to it
\* and written its whole answer, and the drain has found the stdout pipe
\* empty.
AnswerConsumed ==
  /\ wlog # <<>>
  /\ child = "alive" /\ stdin = <<>> /\ todoOut = <<>> /\ outPipe = <<>>
  /\ (pc = "rup_while" \/ DrainReturned)

\* C1 (as claimed): for every way the child's answer is split into read
\* chunks, once read_until_prompt has consumed the whole answer (text and
\* prompt) it has detected the prompt, and its stdout accumulator is exactly
\* the text written before the prompt (the prompt removed when trim_prompt
\* is true, kept when it is false).
C1_DrainYieldsReply ==
  AnswerConsumed =>
    /\ hit_prompt
    /\ out_acc = (IF trim_prompt THEN reply ELSE reply \o GDB_PROMPT)

\* C2 (as claimed): read_until_prompt goes round its loop again only while
\* the process is alive and the stdout accumulated so far does not end with
\* the prompt.
C2_LoopsOnlyWithoutPrompt ==
  (pc = "rup_err") => ~string_ends_with(out_acc, GDB_PROMPT)

\* C3: execute called while is_alive() is false changes nothing (no write
\* to the child's stdin, dirty flag unchanged, no fault); called while
\* is_alive() is true it writes exactly its line and sets the dirty flag.
C3_ExecuteSilentWhenNotAlive ==
  [][(pc = "ex_chk" /\ pc' # "ex_chk") =>
       IF alive_ret
         THEN /\ wlog' = Append(wlog, [line |-> ex_line, by |-> "execute",
                                       alive |-> (child = "alive")])
              /\ running_program_flag' = TRUE
         ELSE /\ wlog' = wlog /\ stdin' = stdin
              /\ running_program_flag' = running_program_flag
              /\ pc' # "crashed"]_vars

\* An execute call has returned without writing anything.
C3_Witness ==
  /\ pc \in {"oc_cmd_ucg", "oc_eof_ucg"}
  /\ Cardinality(ExecWrites) < Len(execCalls)

\* C4: a status query is written only right after a write made by execute
\* (never first, never twice in a row); when is_running_program has
\* returned, the dirty flag is clear and the value returned is the cached
\* one; and the cached value changes only when a query has been answered.
C4_LazyStatus ==
  /\ [](/\ \A i \in QueryWrites : i > 1 /\ wlog[i - 1].by = "execute"
        /\ (pc = "ucg_post" =>
              /\ ~running_program_flag
              /\ irp_ret = running_program))
  /\ [][(running_program' # running_program \/ wlog' # wlog)
          => (pc \in {"irp_set", "geo_write", "ex_chk"}
              /\ (pc = "geo_write" => running_program_flag))]_vars

\* is_running_program has returned the cached value TRUE without a query:
\* the last write is an older query, and an execute call since then wrote
\* nothing.
C4_Witness ==
  /\ pc = "ucg_post" /\ irp_ret
  /\ Len(execCalls) > Cardinality(ExecWrites)
  /\ wlog # <<>> /\ wlog[Len(wlog)].by = "query"

\* C5: until execute is first called, is_running_program returns false and
\* nothing at all is written to the child.
C5_FreshSessionIdle ==
  (execCalls = <<>>) =>
    /\ wlog = <<>>
    /\ stdin = <<>>
    /\ (pc = "ucg_post" => irp_ret = FALSE)

\* is_running_program has returned during the startup update.
C5_Witness == pc = "ucg_post" /\ execCalls = <<>> /\ ~irp_ret

\* The console thread is past the loop's end-of-input branch.
AfterEof ==
  \/ pc \in {"oc_eof_ucg", "oc_exit", "done", "crashed"}
  \/ stack # <<>> /\ stack[Len(stack)] \in {"oc_eof_ucg", "oc_exit"}

\* C6: when readline returns end-of-input and no command was issued before,
\* execute is called exactly once, with "quit" (written to the child at most
\* once), the loop never reads another line, and when the loop has ended
\* the child has exited.
C6_EofQuitsOnce ==
  (buf_input = NULL /\ history = <<>>) =>
    /\ (pc = "oc_eof" /\ execCalls = <<>>) \/ (AfterEof /\ execCalls = <<GDB_QUIT>>)
    /\ Cardinality(ExecWrites) <= 1
    /\ \A i \in ExecWrites : wlog[i].line = GDB_QUIT
    /\ (pc \in {"oc_exit", "done"} => child = "exited")

\* End-of-input was the first thing read, quit was written to a live child
\* and the loop has ended.
C6_Witness ==
  /\ buf_input = NULL /\ nRead = 1 /\ pc = "oc_exit"
  /\ ExecWrites # {} /\ \A i \in ExecWrites : wlog[i].alive

C8_AliveUnlessBothExited ==
  IsAliveReturned => (alive_ret = ~(out_exited /\ err_exited))

\* C8 (amended): is_alive returns true exactly when neither channel reports
\* that the process has exited.
C8_AliveIffNeitherExited ==
  IsAliveReturned => (alive_ret = (~out_exited /\ ~err_exited))

\* is_alive has returned false with exactly one channel reporting exit.
C8_Witness == IsAliveReturned /\ ~out_exited /\ err_exited /\ ~alive_ret

\* C9: SetStackFrame with a frame that has memory.  Into an empty image the
\* frame is stored as it is.  Otherwise the image becomes the range from
\* the smaller top to the larger bottom, in which an address inside the
\* frame holds the frame's value, an address inside the old image only
\* keeps its value, and any other address holds 0.
C9_StackMerge ==
  [][(nFrames' = nFrames + 1 /\ last_frame'.has_memory) =>
       LET f == last_frame'
           fTop == f.stack_pointer
           fBottom == f.stack_pointer + f.memory_length
           oldTop == stack_top
           oldBottom == stack_top + stack_size
       IN IF stack_global = NullBuf
            THEN /\ stack_top' = fTop
                 /\ stack_size' = f.memory_length
                 /\ DOMAIN stack_global' = 0..(f.memory_length - 1)
                 /\ \A a \in fTop..(fBottom - 1) : stack_global'[a - fTop] = f.memory[a - fTop]
            ELSE /\ stack_top' = Min(oldTop, fTop)
                 /\ stack_top' + stack_size' = (IF oldBottom > fBottom THEN oldBottom ELSE fBottom)
                 /\ DOMAIN stack_global' = 0..(stack_size' - 1)
                 /\ \A a \in stack_top'..(stack_top' + stack_size' - 1) :
                      stack_global'[a - stack_top'] =
                        (IF a \in fTop..(fBottom - 1) THEN f.memory[a - fTop]
                         ELSE IF a \in oldTop..(oldBottom - 1) THEN stack_global[a - oldTop]
                         ELSE 0)]_vars

\* A frame has been merged into a stored image that it overlaps without
\* covering: the image holds values of the latest frame and, beside them,
\* values of an earlier one.
C9_Witness ==
  /\ last_frame.has_memory
  /\ stack_size > last_frame.memory_length
  /\ \E i, j \in 0..(stack_size - 1) :
       /\ stack_global[i] >= 100 * nFrames
       /\ stack_global[j] > 0 /\ stack_global[j] < 100 * nFrames

C11_NoSharedState ==
  (pc = "ucg_post") =>
    \A g \in GuiStates : ucg_post_outcomes(g) = ucg_post_outcomes(gui)

C13_ArgsForwarded ==
  /\ (pc = "oc_args" => args = SubSeq(argv, 1, arg_i))
  /\ (pc # "oc_args" =>
        /\ child_file = "gdb"
        /\ Len(child_argv) = Len(argv)
        /\ Tail(child_argv) = Tail(argv))

\* gdb has been started from a command line with three different words
\* after the program name.
C13_Witness ==
  /\ pc = "oc_banner" /\ child = "alive"
  /\ Len(argv) = 4 /\ Cardinality({argv[i] : i \in 2..4}) = 3

C15_StopsAtPrompt ==
  [][(pc = "rup_out" /\ hit_prompt)
       => (out_acc' = out_acc /\ Len(outPipe') >= Len(outPipe))]_vars

\* C16 (as claimed): every byte the child wrote has been appended to the
\* accumulator of some drain, so when the console loop has ended nothing
\* the child wrote is left unread in either pipe.
C16_NoByteLost ==
  (pc = "oc_exit") => (outPipe = <<>> /\ errPipe = <<>>)

\* C17: when is_alive returns false to read_until_prompt, the call returns
\* at once, leaving both accumulators, the flag and both pipes as they are;
\* nothing is appended or read between the start of the call and the
\* answer of is_alive, and bytes are taken from the pipes only in the two
\* read loops (and by close).  So a call made when the process has exited
\* returns empty, without a read.
C17_DrainWhenNotAlive ==
  [][/\ (pc = "rup_chk" /\ pc' # pc /\ ~alive_ret)
        => /\ pc' = Head(stack)
           /\ UNCHANGED <<out_acc, err_acc, hit_prompt, outPipe, errPipe>>
     /\ (pc = "rup_start" /\ pc' # pc)
        => (out_acc' = <<>> /\ err_acc' = <<>> /\ ~hit_prompt')
     /\ (pc \in {"rup_while", "ia_out", "ia_err"})
        => UNCHANGED <<out_acc, err_acc, hit_prompt>>
     /\ (Len(outPipe') < Len(outPipe) \/ Len(errPipe') < Len(errPipe))
        => pc \in {"rup_err", "rup_out", "oc_exit"}]_vars

\* A drain has returned empty, the prompt not detected, from a process that
\* has exited, although bytes were waiting on stdout.
C17_Witness ==
  /\ DrainReturned /\ child = "exited"
  /\ out_acc = <<>> /\ err_acc = <<>> /\ ~hit_prompt
  /\ outPipe # <<>>

\* What open_console does before its loop, for one non-empty line, and on
\* end-of-input.
StartupSteps == <<"drain", "post">>
LineSteps == <<"history", "execute", "drain", "post">>
EofSteps == <<"execute", "drain", "post">>

\* The steps for n lines, one after the other.
RECURSIVE LinesSteps(_)
LinesSteps(n) == IF n = 0 THEN <<>> ELSE LinesSteps(n - 1) \o LineSteps

\* What open_console is to have done when it has dealt with everything it
\* has read so far.
ExpectedSteps ==
  StartupSteps \o LinesSteps(Len(history))
    \o (IF buf_input = NULL THEN EofSteps ELSE <<>>)

IsPrefix(a, b) == Len(a) <= Len(b) /\ SubSeq(b, 1, Len(a)) = a

\* The console loop is between two lines, or has ended.
BetweenLines == stack = <<>> /\ pc \in {"oc_while", "oc_exit", "done"}

C19_NoWriteWhenNotAlive ==
  \A i \in QueryWrites : wlog[i].alive

\* C20 (as claimed): is_running_program returns false when the child has
\* exited: both when it returns the cached value and when it has sent its
\* status query to a child that had already exited.
C20_IdleAfterExit ==
  [][/\ (pc = "irp_start" /\ pc' # pc /\ child = "exited" /\ ~running_program_flag)
        => irp_ret' = FALSE
     /\ (pc = "irp_set" /\ pc' # pc /\ ~wlog[Len(wlog)].alive)
        => irp_ret' = FALSE]_vars

\* Bytes that occur only in answers to user commands and in the
\* introduction, and bytes that occur only in answers to the status query.
UserBytes == {"G", "S", "x"}
StatusBytes == {"u", "p", "n", "o", "t", "e", "i", "r"}

\* The bytes of a text.
BytesOf(text) == {text[i] : i \in DOMAIN text}

\* C21 (as claimed): the drain made for the console never appends a byte
\* of a status-query answer, the drain made for the status query never
\* appends a byte of a user command's answer, and the text that
\* is_running_program inspects holds no byte of a user command's answer.
C21_RepliesAligned ==
  /\ (dest = "console" => BytesOf(out_acc) \cap StatusBytes = {})
  /\ (dest = "private" => BytesOf(out_acc) \cap UserBytes = {})
  /\ BytesOf(program_status) \cap UserBytes = {}

\* C22: SetStackFrame with a null frame or a frame without memory leaves
\* no stored image (no buffer, size 0, top 0), and changes nothing when
\* there was none; whenever no image is stored its size and top are 0; and
\* a frame with memory given when no image is stored becomes the whole
\* image, every value being the frame's own.
C22_NullFrameResets ==
  /\ [](stack_global = NullBuf => (stack_size = 0 /\ stack_top = 0))
  /\ [][/\ (nFrames' = nFrames + 1 /\ ~(last_frame'.present /\ last_frame'.has_memory))
           => /\ stack_global' = NullBuf /\ stack_size' = 0 /\ stack_top' = 0
              /\ (stack_global = NullBuf
                    => UNCHANGED <<stack_global, stack_size, stack_top>>)
        /\ (nFrames' = nFrames + 1 /\ last_frame'.has_memory /\ stack_global = NullBuf)
           => /\ stack_global' = last_frame'.memory
              /\ stack_size' = last_frame'.memory_length
              /\ stack_top' = last_frame'.stack_pointer]_vars

\* A frame without memory has been given after frames had been given, and
\* no image is stored.
C22_Witness ==
  /\ nFrames >= 2 /\ last_frame.present /\ ~last_frame.has_memory
  /\ stack_global = NullBuf /\ stack_size = 0 /\ stack_top = 0

====
